---- MODULE Spec2Model ----
(***************************************************************************)
(* A model of pygasus.py: the Pegasus digital-pen transport framer         *)
(* (_dev_write_command, _dev_read), the device session's bulk download     *)
(* (download_data) and cached identity (the properties, _get_version,      *)
(* _get_device_id), and the note container decoder (load_pegasus_notes,    *)
(* PegasusNote, as_svg).  Byte strings are sequences of integers 0..255,   *)
(* indexed from 0 through At.                                              *)
(***************************************************************************)
EXTENDS Integers, Naturals, Sequences, FiniteSets, TLC

VARIABLES
    \* PegasusDevice.download_data
    dpc,          \* position in download_data
    number_of_packets,   \* -1 while it is not assigned
    packets,      \* the dict packets, in insertion order: <<packet_id, payload>>
    delivered,    \* the frames _dev_read returned inside the loop, in order
    sawNone,      \* a loop read returned None while the count was short
    result,       \* the buffer download_data returned
    written,      \* what _dev_write_command wrote: [cmd, frame], in order
    io,           \* the writes and read attempts of download_data, in order
    \* PegasusDevice._dev_read
    rpc,          \* position in _dev_read
    reply,        \* the local reply
    sent,         \* bytes the device has put on the wire so far
    taken,        \* bytes of the wire the reads have consumed
    elapsed,      \* time.time() - ts, in seconds
    alarm,        \* a SIGALRM timer is pending
    emptyRead,    \* how the handle reports "no data": block, None or b''
    eintr,        \* what a signal does to a blocked read: raise or retry
    rerror,       \* the exception _dev_read left with
    rresult,      \* what _dev_read returned
    \* load_pegasus_notes
    lpc,          \* position in load_pegasus_notes
    data,         \* the buffer
    offset,
    pointer,
    notes,        \* the list notes
    \* PegasusNote on a synthetic note
    npc,
    inStrokes,    \* the strokes that were encoded
    inHeader,     \* the 14-byte header that was encoded
    encoded,      \* the encoded slice
    note,         \* the decoded PegasusNote
    svg,          \* what note.as_svg() returned: the paths, in order
    \* PegasusDevice, the cached identity
    dev,          \* _product_id, _version, _pad_version, _mode, _device_id
    returned,     \* the outcome of every property access so far, in order
    pending       \* the property whose fetch waits for the reply, or ""

dvars == <<dpc, number_of_packets, packets, delivered, sawNone, result, io>>
rvars == <<rpc, reply, sent, taken, elapsed, alarm, emptyRead, eintr, rerror, rresult>>
lvars == <<lpc, data, offset, pointer, notes>>
nvars == <<npc, inStrokes, inHeader, encoded, note, svg>>
svars == <<dev, returned, pending>>
vars == <<dvars, written, rvars, lvars, nvars, svars>>

----------------------------------------------------------------------------
\* Bounds of the model.

\* The largest packet count the device announces (besides one two-byte count).
MaxPackets == 3
\* The most frames one download reads inside its loop.
MaxReads == 4
\* The longest opcode sequence handed to _dev_write_command.
MaxCmdLen == 6
\* The most records a buffer given to load_pegasus_notes is built from.
MaxRecords == 2
\* The most notes load_pegasus_notes collects from one buffer.
MaxNotes == 4
\* The most strokes of a synthetic note, and the most points of a stroke.
MaxStrokes == 2
MaxPoints == 2
\* The most groups after the header of a slice given to PegasusNote.
MaxGroups == 3
\* The most property accesses made on one PegasusDevice.
MaxAccesses == 3

----------------------------------------------------------------------------
\* Byte strings.

\* b[i] of a Python bytes object (0-based).
At(b, i) == b[i + 1]

\* [v] * n; a negative n gives the empty list.
Repeat(v, n) == [i \in 1..n |-> v]

\* b[lo:hi] of a Python sequence, for 0 <= lo and 0 <= hi: both ends are
\* clamped to len(b), and an end before the start gives the empty sequence.
PySlice(b, lo, hi) ==
    LET h == IF hi < Len(b) THEN hi ELSE Len(b)
    IN  IF lo >= h THEN <<>> ELSE [i \in 1..(h - lo) |-> b[lo + i]]

\* A response frame is 64 bytes.
FrameLen == 64

----------------------------------------------------------------------------
\* _dev_write_command

\* The room for opcode bytes in a command frame.
CmdPad == 6

\* A faulty variant: the padding is computed against the frame size, not the opcode room.
DevWriteFramePadToFrame(command) ==
    <<2, Len(command)>> \o command \o Repeat(0, 8 - Len(command))

\* bytes([0x02, len(command)] + list(command) + [0] * (6 - len(command)))
DevWriteFrame(command) ==
    <<2, Len(command)>> \o command \o Repeat(0, CmdPad - Len(command))

\* self._f.write(command): the frame is appended to what the handle received.
DevWriteCommand(w, command) ==
    Append(w, [cmd |-> command, frame |-> DevWriteFrame(command)])

\* The commands the session issues.
CmdVersion == <<149, 149>>
CmdDeviceId == <<128, 211>>
CmdNotesCount == <<128, 192>>
CmdDownload == <<181>>
CmdTransfer == <<182>>
SessionCommands == {CmdVersion, CmdDeviceId, CmdNotesCount, CmdDownload, CmdTransfer}

----------------------------------------------------------------------------
\* The dict packets of download_data, kept in insertion order as Python does.

DictHas(d, k) == \E i \in 1..Len(d) : d[i][1] = k

DictGet(d, k) == d[CHOOSE i \in 1..Len(d) : d[i][1] = k][2]

\* d[k] = v: a new key is appended, a known key keeps its place and takes v.
DictSet(d, k, v) ==
    IF DictHas(d, k)
    THEN [i \in 1..Len(d) |-> IF d[i][1] = k THEN <<k, v>> ELSE d[i]]
    ELSE Append(d, <<k, v>>)

\* packet_id = (reply[0] << 8) + reply[1]
PacketId(frame) == At(frame, 0) * 256 + At(frame, 1)

\* reply[2:]
PacketPayload(frame) == PySlice(frame, 2, Len(frame))

\* packets[packet_id] = reply[2:]
StorePacket(d, frame) == DictSet(d, PacketId(frame), PacketPayload(frame))

\* number_of_packets = (reply[5] << 8) + reply[6]
NumberOfPackets(frame) == At(frame, 5) * 256 + At(frame, 6)

\* The seven marker asserts on the reply to [0xb5].
AnnounceMarkersOk(frame) ==
    /\ \A i \in 0..4 : At(frame, i) = 170
    /\ At(frame, 7) = 85
    /\ At(frame, 8) = 85

RECURSIVE JoinUpTo(_, _)
JoinUpTo(d, n) == IF n = 0 THEN <<>> ELSE JoinUpTo(d, n - 1) \o DictGet(d, n)

RECURSIVE JoinInserted(_, _)
JoinInserted(d, n) == IF n = 0 THEN <<>> ELSE JoinInserted(d, n - 1) \o d[n][2]

\* A faulty variant: the payloads are joined in the order the dict received them.
JoinPacketsArrival(d, n) == JoinInserted(d, n)

\* for i in range(number_of_packets): data.append(packets[i+1]); b''.join(data)
JoinPackets(d, n) == JoinUpTo(d, n)

\* packets[i+1] raises KeyError for an id that never arrived.
HasAllIds(d, n) == \A i \in 1..n : DictHas(d, i)

RECURSIVE JoinPresent(_, _)
JoinPresent(d, n) ==
    IF n = 0 THEN <<>>
    ELSE JoinPresent(d, n - 1) \o (IF DictHas(d, n) THEN DictGet(d, n) ELSE <<>>)

\* A faulty variant: no count check, and ids that never arrived are skipped.
FinishDownloadLenient(d, n) == [ok |-> TRUE, ack |-> TRUE, buf |-> JoinPresent(d, n)]

RECURSIVE JoinFromZero(_, _)
JoinFromZero(d, n) ==
    IF n = 0 THEN <<>> ELSE JoinFromZero(d, n - 1) \o DictGet(d, n - 1)

\* A faulty variant: the ids are taken as 0-based, packets[i] for i in range(n).
FinishDownloadZeroBased(d, n) ==
    IF Len(d) # n THEN [ok |-> FALSE, ack |-> FALSE, buf |-> <<>>]
    ELSE IF ~(\A i \in 0..(n - 1) : DictHas(d, i))
         THEN [ok |-> FALSE, ack |-> TRUE, buf |-> <<>>]
         ELSE [ok |-> TRUE, ack |-> TRUE, buf |-> JoinFromZero(d, n)]

\* What follows the loop: assert len(packets) == number_of_packets, the
\* acknowledging [0xb6], then the join, which raises KeyError on a missing id.
FinishDownload(d, n) ==
    IF Len(d) # n THEN [ok |-> FALSE, ack |-> FALSE, buf |-> <<>>]
    ELSE IF ~HasAllIds(d, n) THEN [ok |-> FALSE, ack |-> TRUE, buf |-> <<>>]
         ELSE [ok |-> TRUE, ack |-> TRUE, buf |-> JoinPackets(d, n)]

----------------------------------------------------------------------------
\* What the device answers during a download.

\* The payload bytes a packet is filled with.
Fills == {17, 34}

\* The reply to [0xb5] announcing n packets.
AnnounceFrame(n) ==
    <<170, 170, 170, 170, 170, n \div 256, n % 256, 85, 85>> \o Repeat(0, FrameLen - 9)

\* The same reply with the marker at position p spoilt.
BadAnnounceFrame(n, p) == [AnnounceFrame(n) EXCEPT ![p + 1] = 0]

AnnouncedCounts == (0..MaxPackets) \cup {256}

\* A data frame: a big-endian packet id and 62 payload bytes.
PacketFrame(id, fill) == <<id \div 256, id % 256>> \o Repeat(fill, FrameLen - 2)

PacketFrames == {PacketFrame(id, f) : id \in 0..(MaxPackets + 1), f \in Fills}

----------------------------------------------------------------------------
\* The parts of the state a specification does not use stay as constructed.

DownloadIdle ==
    /\ dpc = "idle" /\ number_of_packets = -1 /\ packets = <<>> /\ delivered = <<>>
    /\ sawNone = FALSE /\ result = <<>> /\ io = <<>>

ReadIdle ==
    /\ rpc = "idle" /\ reply = <<>> /\ sent = 0 /\ taken = 0 /\ elapsed = 0
    /\ alarm = FALSE /\ emptyRead = "block" /\ eintr = "retry"
    /\ rerror = "" /\ rresult = [kind |-> "unset", bytes |-> <<>>]

LoadIdle ==
    /\ lpc = "idle" /\ data = <<>> /\ offset = 0 /\ pointer = 0 /\ notes = <<>>

NoteIdle ==
    /\ npc = "idle" /\ inStrokes = <<>> /\ inHeader = <<>> /\ encoded = <<>>
    /\ note = [ok |-> FALSE, err |-> "", strokes |-> <<>>, note_id |-> 0, hash |-> <<>>]
    /\ svg = <<>>

\* A cached field is None, here <<>>, or holds one value v, here <<v>>.
None == <<>>

\* PegasusDevice.__init__: the five cached fields start as None.
NewDevice ==
    [product_id |-> None, version |-> None, pad_version |-> None, mode |-> None,
     device_id |-> None]

SessionIdle == dev = NewDevice /\ returned = <<>> /\ pending = ""

----------------------------------------------------------------------------
\* PegasusDevice.download_data, one action per exchange with the device.

InitDownload ==
    /\ dpc = "start" /\ number_of_packets = -1 /\ packets = <<>> /\ delivered = <<>>
    /\ sawNone = FALSE /\ result = <<>> /\ io = <<>>
    /\ written = <<>>
    /\ ReadIdle /\ LoadIdle /\ NoteIdle /\ SessionIdle

\* self._dev_write_command([0xb5])
DlBegin ==
    /\ dpc = "start"
    /\ written' = DevWriteCommand(written, CmdDownload)
    /\ io' = Append(io, "write")
    /\ dpc' = "announce"
    /\ UNCHANGED <<number_of_packets, packets, delivered, sawNone, result>>
    /\ UNCHANGED <<rvars, lvars, nvars, svars>>

\* reply = self._dev_read(); the marker asserts; number_of_packets;
\* packets = {}; self._dev_write_command([0xb6])
DlAnnounce ==
    /\ dpc = "announce"
    /\ \E frame \in {AnnounceFrame(n) : n \in AnnouncedCounts}
                    \cup {BadAnnounceFrame(1, p) : p \in {0, 1, 2, 3, 4, 7, 8}} :
          IF AnnounceMarkersOk(frame)
          THEN /\ number_of_packets' = NumberOfPackets(frame)
               /\ written' = DevWriteCommand(written, CmdTransfer)
               /\ io' = io \o <<"read", "write">>
               /\ dpc' = "loop"
          ELSE /\ dpc' = "failed"
               /\ io' = Append(io, "read")
               /\ UNCHANGED <<number_of_packets, written>>
    /\ UNCHANGED <<packets, delivered, sawNone, result>>
    /\ UNCHANGED <<rvars, lvars, nvars, svars>>

\* The first _dev_read returns None (reply[0] raises TypeError) or raises.
DlAnnounceNoReply ==
    /\ dpc = "announce"
    /\ dpc' = "failed"
    /\ io' = Append(io, "read")
    /\ UNCHANGED <<number_of_packets, packets, delivered, sawNone, result, written>>
    /\ UNCHANGED <<rvars, lvars, nvars, svars>>

\* while len(packets) < number_of_packets: a frame arrives and is stored.
DlPacket ==
    /\ dpc = "loop"
    /\ Len(packets) < number_of_packets
    /\ Len(delivered) < MaxReads
    /\ \E frame \in PacketFrames :
          /\ packets' = StorePacket(packets, frame)
          /\ delivered' = Append(delivered, frame)
    /\ io' = Append(io, "read")
    /\ UNCHANGED <<dpc, number_of_packets, sawNone, result, written>>
    /\ UNCHANGED <<rvars, lvars, nvars, svars>>

\* if reply is None: break
DlNone ==
    /\ dpc = "loop"
    /\ Len(packets) < number_of_packets
    /\ sawNone' = TRUE
    /\ io' = Append(io, "read")
    /\ dpc' = "check"
    /\ UNCHANGED <<number_of_packets, packets, delivered, result, written>>
    /\ UNCHANGED <<rvars, lvars, nvars, svars>>

\* _dev_read raises inside the loop (a partial frame, an I/O error).
DlReadRaises ==
    /\ dpc = "loop"
    /\ Len(packets) < number_of_packets
    /\ dpc' = "failed"
    /\ io' = Append(io, "read")
    /\ UNCHANGED <<number_of_packets, packets, delivered, sawNone, result, written>>
    /\ UNCHANGED <<rvars, lvars, nvars, svars>>

\* The loop condition fails: as many ids as announced are in the dict.
DlLoopDone ==
    /\ dpc = "loop"
    /\ ~(Len(packets) < number_of_packets)
    /\ dpc' = "check"
    /\ UNCHANGED <<number_of_packets, packets, delivered, sawNone, result, written, io>>
    /\ UNCHANGED <<rvars, lvars, nvars, svars>>

\* The assert, the acknowledging [0xb6], the join and the return.
DlFinish ==
    /\ dpc = "check"
    /\ LET out == FinishDownload(packets, number_of_packets)
       IN  /\ written' = IF out.ack THEN DevWriteCommand(written, CmdTransfer)
                         ELSE written
           /\ io' = IF out.ack THEN Append(io, "write") ELSE io
           /\ dpc' = IF out.ok THEN "returned" ELSE "failed"
           /\ result' = out.buf
    /\ UNCHANGED <<number_of_packets, packets, delivered, sawNone>>
    /\ UNCHANGED <<rvars, lvars, nvars, svars>>

NextDownload ==
    \/ DlBegin
    \/ DlAnnounce
    \/ DlAnnounceNoReply
    \/ DlPacket
    \/ DlNone
    \/ DlReadRaises
    \/ DlLoopDone
    \/ DlFinish

SpecDownload == InitDownload /\ [][NextDownload]_vars

----------------------------------------------------------------------------
\* _dev_write_command on its own: any opcode sequence, then the frame written.

\* The byte values opcode sequences are drawn from.
OpBytes == {128, 181}

RECURSIVE SeqsOfLen(_, _)
SeqsOfLen(S, n) ==
    IF n = 0 THEN {<<>>}
    ELSE {Append(s, x) : s \in SeqsOfLen(S, n - 1), x \in S}

\* The sequences over S of length 0 to n.
SeqsUpTo(S, n) == UNION {SeqsOfLen(S, k) : k \in 0..n}

Commands == SeqsUpTo(OpBytes, MaxCmdLen) \cup SessionCommands

InitCmd ==
    /\ written = <<>>
    /\ DownloadIdle /\ ReadIdle /\ LoadIdle /\ NoteIdle /\ SessionIdle

WriteCommand ==
    /\ written = <<>>
    /\ \E command \in Commands : written' = DevWriteCommand(written, command)
    /\ UNCHANGED <<dvars, rvars, lvars, nvars, svars>>

NextCmd == WriteCommand

SpecCmd == InitCmd /\ [][NextCmd]_vars

----------------------------------------------------------------------------
\* PegasusDevice._dev_read, one action per statement that touches the handle,
\* the clock or the alarm.  The device puts bytes on the wire in half frames;
\* byte i of the wire is WireByte(i).

\* def _dev_read(self, timeout=2)
Timeout == 2

\* The most half frames the device sends during one _dev_read.
MaxChunks == 3

HalfFrame == FrameLen \div 2

WireByte(i) == (3 * i + 1) % 256

\* The bytes of the wire from position lo up to, not including, hi.
Wire(lo, hi) == [i \in 1..(hi - lo) |-> WireByte(lo + i - 1)]

Min(a, b) == IF a < b THEN a ELSE b

InitRead ==
    /\ rpc = "start" /\ reply = <<>> /\ taken = 0 /\ elapsed = 0
    /\ sent \in {0, HalfFrame, FrameLen}
    /\ alarm = FALSE
    /\ emptyRead \in {"block", "none", "eof"}
    /\ eintr \in {"raise", "retry"}
    /\ rerror = "" /\ rresult = [kind |-> "unset", bytes |-> <<>>]
    /\ written = <<>>
    /\ DownloadIdle /\ LoadIdle /\ NoteIdle /\ SessionIdle

\* ts = time.time(); reply = b''; signal.alarm(timeout); signal.signal(...)
RdArm ==
    /\ rpc = "start"
    /\ rpc' = "loop"
    /\ reply' = <<>>
    /\ elapsed' = 0
    /\ alarm' = (Timeout # 0)
    /\ UNCHANGED <<sent, taken, emptyRead, eintr, rerror, rresult>>
    /\ UNCHANGED <<dvars, written, lvars, nvars, svars>>

\* while len(reply) < 64 and time.time() - ts <= timeout
RdLoop ==
    /\ rpc = "loop"
    /\ rpc' = IF Len(reply) < FrameLen /\ elapsed <= Timeout THEN "read" ELSE "after"
    /\ UNCHANGED <<reply, sent, taken, elapsed, alarm, emptyRead, eintr, rerror, rresult>>
    /\ UNCHANGED <<dvars, written, lvars, nvars, svars>>

\* d = self._f.read(64-len(reply)) with bytes pending (at once, or after
\* having blocked); reply += d
RdReadData ==
    /\ rpc \in {"read", "blocked"}
    /\ sent > taken
    /\ LET k == Min(FrameLen - Len(reply), sent - taken)
       IN  /\ reply' = reply \o Wire(taken, taken + k)
           /\ taken' = taken + k
    /\ rpc' = "loop"
    /\ UNCHANGED <<sent, elapsed, alarm, emptyRead, eintr, rerror, rresult>>
    /\ UNCHANGED <<dvars, written, lvars, nvars, svars>>

\* The read finds nothing and returns None: if d is None: the interpreter
\* enters time.sleep(0.01).  While it sleeps the device may send, time passes
\* and the alarm may fire (the handler returns and the sleep goes on).
RdReadNone ==
    /\ rpc = "read"
    /\ sent = taken
    /\ emptyRead = "none"
    /\ rpc' = "sleeping"
    /\ UNCHANGED <<reply, sent, taken, elapsed, alarm, emptyRead, eintr, rerror, rresult>>
    /\ UNCHANGED <<dvars, written, lvars, nvars, svars>>

\* The sleep ends: reply += d raises TypeError (bytes + None), which leaves
\* _dev_read, whatever has arrived on the wire in the meantime.
RdSleepDone ==
    /\ rpc = "sleeping"
    /\ rpc' = "failed"
    /\ rerror' = "TypeError"
    /\ UNCHANGED <<reply, sent, taken, elapsed, alarm, emptyRead, eintr, rresult>>
    /\ UNCHANGED <<dvars, written, lvars, nvars, svars>>

\* The read finds nothing and returns b'': reply += b''.
RdReadEof ==
    /\ rpc = "read"
    /\ sent = taken
    /\ emptyRead = "eof"
    /\ rpc' = "loop"
    /\ UNCHANGED <<reply, sent, taken, elapsed, alarm, emptyRead, eintr, rerror, rresult>>
    /\ UNCHANGED <<dvars, written, lvars, nvars, svars>>

\* The read finds nothing and blocks in the system call.
RdReadBlock ==
    /\ rpc = "read"
    /\ sent = taken
    /\ emptyRead = "block"
    /\ rpc' = "blocked"
    /\ UNCHANGED <<reply, sent, taken, elapsed, alarm, emptyRead, eintr, rerror, rresult>>
    /\ UNCHANGED <<dvars, written, lvars, nvars, svars>>

\* The read raises an OSError other than InterruptedError (the device is
\* gone): nothing catches it.
RdReadError ==
    /\ rpc \in {"read", "blocked"}
    /\ rpc' = "failed"
    /\ rerror' = "OSError"
    /\ UNCHANGED <<reply, sent, taken, elapsed, alarm, emptyRead, eintr, rresult>>
    /\ UNCHANGED <<dvars, written, lvars, nvars, svars>>

\* The timer set by signal.alarm(timeout) expires: _ignore_signal runs and
\* returns.  A read blocked at that moment either raises InterruptedError
\* (caught: break) or is started again by the interpreter, as eintr says.
Signal ==
    /\ alarm
    /\ elapsed >= Timeout
    /\ alarm' = FALSE
    /\ rpc' = IF rpc = "blocked" /\ eintr = "raise" THEN "after" ELSE rpc
    /\ UNCHANGED <<reply, sent, taken, elapsed, emptyRead, eintr, rerror, rresult>>
    /\ UNCHANGED <<dvars, written, lvars, nvars, svars>>

\* signal.alarm(0); return None / assert len(reply) == 64 / return reply
RdAfter ==
    /\ rpc = "after"
    /\ alarm' = FALSE
    /\ IF Len(reply) = 0
       THEN /\ rpc' = "returned"
            /\ rresult' = [kind |-> "None", bytes |-> <<>>]
            /\ UNCHANGED rerror
       ELSE IF Len(reply) = FrameLen
            THEN /\ rpc' = "returned"
                 /\ rresult' = [kind |-> "bytes", bytes |-> reply]
                 /\ UNCHANGED rerror
            ELSE /\ rpc' = "failed"
                 /\ rerror' = "AssertionError"
                 /\ UNCHANGED rresult
    /\ UNCHANGED <<reply, sent, taken, elapsed, emptyRead, eintr>>
    /\ UNCHANGED <<dvars, written, lvars, nvars, svars>>

\* A second passes.
Tick ==
    /\ rpc # "start"
    /\ elapsed <= Timeout
    /\ elapsed' = elapsed + 1
    /\ UNCHANGED <<rpc, reply, sent, taken, alarm, emptyRead, eintr, rerror, rresult>>
    /\ UNCHANGED <<dvars, written, lvars, nvars, svars>>

\* The device puts another half frame on the wire.
DeviceSend ==
    /\ rpc \notin {"returned", "failed"}
    /\ sent + HalfFrame <= MaxChunks * HalfFrame
    /\ sent' = sent + HalfFrame
    /\ UNCHANGED <<rpc, reply, taken, elapsed, alarm, emptyRead, eintr, rerror, rresult>>
    /\ UNCHANGED <<dvars, written, lvars, nvars, svars>>

\* The steps the interpreter takes on its own.
RdStep ==
    \/ RdArm \/ RdLoop \/ RdReadData \/ RdReadNone \/ RdSleepDone \/ RdReadEof
    \/ RdReadBlock \/ RdAfter

NextRead ==
    \/ RdArm
    \/ RdLoop
    \/ RdReadData
    \/ RdReadNone
    \/ RdSleepDone
    \/ RdReadEof
    \/ RdReadBlock
    \/ RdReadError
    \/ Signal
    \/ RdAfter
    \/ Tick
    \/ DeviceSend

SpecRead == InitRead /\ [][NextRead]_vars

\* The interpreter keeps running, time passes and a due signal is delivered;
\* nothing obliges the device to send or the handle to fail.
FairSpecRead ==
    /\ InitRead /\ [][NextRead]_vars
    /\ WF_vars(RdStep) /\ WF_vars(Tick) /\ WF_vars(Signal)

----------------------------------------------------------------------------
\* PegasusNote.__init__

\* The pen-lift group b'\x00\x00\x00\x80'.
Sentinel == <<0, 0, 0, 128>>

\* The bytes of the fixed header.
HeaderLen == 14

\* A faulty variant: the 16-bit value is taken as unsigned ('<HH').
Int16Unsigned(lo, hi) == lo + 256 * hi

\* One little-endian signed 16-bit integer of struct.Struct('<hh').
Int16(lo, hi) ==
    LET u == lo + 256 * hi
    IN  IF u >= 32768 THEN u - 65536 ELSE u

\* self._XYcoords_struct.unpack(group)
UnpackXY(group) == <<Int16(group[1], group[2]), Int16(group[3], group[4])>>

\* flags & 0b00010000 != 0
FlagBit4(flags) == (flags \div 16) % 2 = 1

\* hashlib.md5(payload).hexdigest() as a term over its input: two digests
\* are equal exactly when the hashed bytes are.
Md5(payload) == <<"md5", payload>>

NoteError(kind) ==
    [ok |-> FALSE, err |-> kind, strokes |-> <<>>, note_id |-> 0, hash |-> <<>>]

\* A faulty variant: a last group of fewer than 4 bytes is ignored.
RECURSIVE ScanStrokesDropPartial(_, _, _, _)
ScanStrokesDropPartial(d, off, strokes, stroke) ==
    IF ~(off + 3 < Len(d)) THEN [ok |-> TRUE, err |-> "", strokes |-> strokes]
    ELSE LET group == PySlice(d, off, off + 4)
         IN  IF group = Sentinel
             THEN ScanStrokesDropPartial(d, off + 4, Append(strokes, stroke), <<>>)
             ELSE ScanStrokesDropPartial(d, off + 4, strokes,
                                         Append(stroke, UnpackXY(group)))

\* A faulty variant: the points after the last sentinel are kept as a stroke.
RECURSIVE ScanStrokesFlush(_, _, _, _)
ScanStrokesFlush(d, off, strokes, stroke) ==
    IF ~(off < Len(d))
    THEN [ok |-> TRUE, err |-> "",
          strokes |-> IF stroke = <<>> THEN strokes ELSE Append(strokes, stroke)]
    ELSE LET group == PySlice(d, off, off + 4)
         IN  IF Len(group) # 4 THEN [ok |-> FALSE, err |-> "struct.error", strokes |-> <<>>]
             ELSE IF group = Sentinel
                  THEN ScanStrokesFlush(d, off + 4, Append(strokes, stroke), <<>>)
                  ELSE ScanStrokesFlush(d, off + 4, strokes, Append(stroke, UnpackXY(group)))

\* while offset < len(data): one 4-byte group at a time; a group that is
\* the sentinel closes the stroke, any other is a point of it.  unpack
\* raises struct.error on a last group of fewer than 4 bytes.
RECURSIVE ScanStrokes(_, _, _, _)
ScanStrokes(d, off, strokes, stroke) ==
    IF ~(off < Len(d)) THEN [ok |-> TRUE, err |-> "", strokes |-> strokes]
    ELSE LET group == PySlice(d, off, off + 4)
         IN  IF Len(group) # 4 THEN [ok |-> FALSE, err |-> "struct.error", strokes |-> <<>>]
             ELSE IF group = Sentinel
                  THEN ScanStrokes(d, off + 4, Append(strokes, stroke), <<>>)
                  ELSE ScanStrokes(d, off + 4, strokes, Append(stroke, UnpackXY(group)))

\* A faulty variant: a slice too short for a header gives an empty note.
PegasusNoteLenient(d) ==
    IF Len(d) < HeaderLen
    THEN [ok |-> TRUE, err |-> "", strokes |-> <<>>, note_id |-> 0, hash |-> Md5(<<>>)]
    ELSE IF ~FlagBit4(At(d, 3)) THEN NoteError("AssertionError")
         ELSE LET scan == ScanStrokes(d, HeaderLen, <<>>, <<>>)
              IN  IF ~scan.ok THEN NoteError(scan.err)
                  ELSE [ok |-> TRUE, err |-> "", strokes |-> scan.strokes,
                        note_id |-> At(d, 4),
                        hash |-> Md5(PySlice(d, HeaderLen, Len(d)))]

\* A faulty variant: the assert on bit 4 of the flags is not made.
PegasusNoteNoFlagCheck(d) ==
    IF Len(d) < HeaderLen THEN NoteError("IndexError")
    ELSE LET scan == ScanStrokes(d, HeaderLen, <<>>, <<>>)
         IN  IF ~scan.ok THEN NoteError(scan.err)
             ELSE [ok |-> TRUE, err |-> "", strokes |-> scan.strokes,
                   note_id |-> At(d, 4),
                   hash |-> Md5(PySlice(d, HeaderLen, Len(d)))]

\* A faulty variant: the whole slice is hashed, header included.
PegasusNoteHashAll(d) ==
    IF Len(d) < 4 THEN NoteError("IndexError")
    ELSE IF ~FlagBit4(At(d, 3)) THEN NoteError("AssertionError")
    ELSE IF Len(d) < HeaderLen THEN NoteError("IndexError")
    ELSE LET scan == ScanStrokes(d, HeaderLen, <<>>, <<>>)
         IN  IF ~scan.ok THEN NoteError(scan.err)
             ELSE [ok |-> TRUE, err |-> "", strokes |-> scan.strokes,
                   note_id |-> At(d, 4), hash |-> Md5(d)]

\* PegasusNote(data): data[3] raises IndexError on fewer than 4 bytes, the
\* assert wants bit 4 of the flags, data[4] .. data[13] raise IndexError on
\* fewer than 14 bytes, then the strokes are scanned and data[14:] hashed.
PegasusNote(d) ==
    IF Len(d) < 4 THEN NoteError("IndexError")
    ELSE IF ~FlagBit4(At(d, 3)) THEN NoteError("AssertionError")
    ELSE IF Len(d) < HeaderLen THEN NoteError("IndexError")
    ELSE LET scan == ScanStrokes(d, HeaderLen, <<>>, <<>>)
         IN  IF ~scan.ok THEN NoteError(scan.err)
             ELSE [ok |-> TRUE, err |-> "", strokes |-> scan.strokes,
                   note_id |-> At(d, 4),
                   hash |-> Md5(PySlice(d, HeaderLen, Len(d)))]

----------------------------------------------------------------------------
\* load_pegasus_notes

\* A faulty variant: the three pointer bytes are read big-endian.
LoadPointerBigEndian(d, off) == At(d, off) * 65536 + At(d, off + 1) * 256 + At(d, off + 2)

\* (data[offset]) + (data[offset + 1] << 8) + (data[offset + 2] << 16)
LoadPointer(d, off) == At(d, off) + At(d, off + 1) * 256 + At(d, off + 2) * 65536

\* data[offset + 2] exists; otherwise reading the pointer raises IndexError.
PointerReadable(d, off) == off + 2 < Len(d)

\* The three bytes of a 24-bit little-endian pointer.
PointerBytes(p) == <<p % 256, (p \div 256) % 256, (p \div 65536) % 256>>

\* One point (5, -7) and the bodies a record is given: nothing, a closed
\* stroke of one point, and a point followed by two stray bytes.
PointBytes == <<5, 0, 249, 255>>
Bodies == {<<>>, PointBytes \o Sentinel, PointBytes \o <<1, 0>>}

\* Flags with bit 4 set, and the same flags with bit 4 clear.
GoodFlags == 156
BadFlags == 140

\* Where a record's pointer leads: to the byte after the record, nowhere (0),
\* two bytes short of the record's end, into its own header, far beyond the
\* buffer, to itself, or back before itself.
PointerKinds(off) ==
    {"next", "zero", "minus2", "short", "beyond"}
        \cup (IF off > 0 THEN {"self", "back"} ELSE {})

PointerOf(off, kind, body) ==
    CASE kind = "next" -> off + HeaderLen + Len(body)
      [] kind = "zero" -> 0
      [] kind = "minus2" -> off + HeaderLen + Len(body) - 2
      [] kind = "short" -> off + 8
      [] kind = "beyond" -> off + 65536
      [] kind = "self" -> off
      [] kind = "back" -> off - 4

\* A record at offset off: pointer, flags, note id, note count, timestamp,
\* protocol id, three reserved bytes, then the body.  Every header field but
\* the protocol id differs between the first record and a later one; bit 7
\* of the flags is set on the first record only.
Record(off, kind, flags, body) ==
    PointerBytes(PointerOf(off, kind, body))
        \o <<IF off = 0 THEN flags ELSE flags - 128, (off + 3) % 256, 2 + (off % 5),
              off % 256, 0, 0, 0, 1, off % 3, 0, 0>>
        \o body

\* The pointer and flags a record at offset off is given: every pointer with
\* good flags, and bad flags on a record that ends or continues the list.
RecordChoices(off) ==
    {<<kind, GoodFlags>> : kind \in PointerKinds(off)}
        \cup {<<kind, BadFlags>> : kind \in {"next", "zero"}}

\* A buffer of k records; every record but the first may point at or before
\* itself.
RECURSIVE RecordBuffers(_)
RecordBuffers(k) ==
    IF k = 0 THEN {<<>>}
    ELSE UNION {{b \o Record(Len(b), c[1], c[2], body) :
                    c \in RecordChoices(Len(b)), body \in Bodies} :
                b \in RecordBuffers(k - 1)}

\* A buffer of MaxRecords records followed by a record that ends the list.
Terminated ==
    {b \o Record(Len(b), "zero", GoodFlags, <<>>) : b \in RecordBuffers(MaxRecords)}

Buffers == UNION {RecordBuffers(k) : k \in 0..MaxRecords} \cup Terminated \cup {<<20, 0>>}

InitLoad ==
    /\ lpc = "start" /\ data \in Buffers /\ offset = 0 /\ pointer = 0 /\ notes = <<>>
    /\ written = <<>>
    /\ DownloadIdle /\ ReadIdle /\ NoteIdle /\ SessionIdle

\* notes = []; offset = 0; pointer = ... (IndexError on fewer than 3 bytes)
LdStart ==
    /\ lpc = "start"
    /\ IF PointerReadable(data, 0)
       THEN /\ pointer' = LoadPointer(data, 0)
            /\ lpc' = "loop"
       ELSE /\ lpc' = "failed"
            /\ UNCHANGED pointer
    /\ UNCHANGED <<data, offset, notes>>
    /\ UNCHANGED <<dvars, written, rvars, nvars, svars>>

\* One turn of the loop: notes.append(PegasusNote(data[offset:pointer]));
\* offset = pointer; pointer = ...
LdNote ==
    /\ lpc = "loop"
    /\ pointer # 0
    /\ Len(notes) < MaxNotes
    /\ LET n == PegasusNote(PySlice(data, offset, pointer))
       IN  IF ~n.ok
           THEN /\ lpc' = "failed"
                /\ UNCHANGED <<offset, pointer, notes>>
           ELSE /\ notes' = Append(notes, n)
                /\ offset' = pointer
                /\ IF PointerReadable(data, pointer)
                   THEN /\ pointer' = LoadPointer(data, pointer)
                        /\ UNCHANGED lpc
                   ELSE /\ lpc' = "failed"
                        /\ UNCHANGED pointer
    /\ UNCHANGED data
    /\ UNCHANGED <<dvars, written, rvars, nvars, svars>>

\* while pointer != 0 ends; return notes
LdReturn ==
    /\ lpc = "loop"
    /\ pointer = 0
    /\ lpc' = "returned"
    /\ UNCHANGED <<data, offset, pointer, notes>>
    /\ UNCHANGED <<dvars, written, rvars, nvars, svars>>

NextLoad ==
    \/ LdStart
    \/ LdNote
    \/ LdReturn

SpecLoad == InitLoad /\ [][NextLoad]_vars

\* The interpreter keeps running the loop.
FairSpecLoad == InitLoad /\ [][NextLoad]_vars /\ WF_vars(NextLoad)

----------------------------------------------------------------------------
\* A synthetic note: strokes are encoded as a header, the points of each
\* stroke as 4-byte groups and a sentinel after each stroke, then decoded.

\* The two bytes of a signed 16-bit integer, low byte first.
EncodeInt16(v) ==
    LET u == IF v < 0 THEN v + 65536 ELSE v
    IN  <<u % 256, u \div 256>>

EncodePoint(pt) == EncodeInt16(pt[1]) \o EncodeInt16(pt[2])

RECURSIVE EncodePoints(_)
EncodePoints(stroke) ==
    IF stroke = <<>> THEN <<>>
    ELSE EncodePoint(Head(stroke)) \o EncodePoints(Tail(stroke))

RECURSIVE EncodeStrokes(_)
EncodeStrokes(strokes) ==
    IF strokes = <<>> THEN <<>>
    ELSE EncodePoints(Head(strokes)) \o Sentinel \o EncodeStrokes(Tail(strokes))

EncodeNote(header, strokes) == header \o EncodeStrokes(strokes)

\* The point whose encoding is the sentinel, and two others.
SentinelPoint == <<0, -32768>>
Points == {SentinelPoint, <<5, -7>>, <<-32768, 32767>>}

\* Headers: bit 4 of the flags set, the other header bytes different.
Headers ==
    {<<0, 0, 0, 156, 3, 2, 0, 0, 0, 0, 1, 0, 0, 0>>,
     <<40, 0, 0, 16, 7, 9, 1, 2, 3, 4, 1, 5, 6, 7>>}

InitNote ==
    /\ npc = "start"
    /\ inStrokes \in SeqsUpTo(SeqsUpTo(Points, MaxPoints), MaxStrokes)
    /\ inHeader \in Headers
    /\ encoded = <<>>
    /\ note = [ok |-> FALSE, err |-> "", strokes |-> <<>>, note_id |-> 0, hash |-> <<>>]
    /\ svg = <<>>
    /\ written = <<>>
    /\ DownloadIdle /\ ReadIdle /\ LoadIdle /\ SessionIdle

NtEncode ==
    /\ npc = "start"
    /\ encoded' = EncodeNote(inHeader, inStrokes)
    /\ npc' = "encoded"
    /\ UNCHANGED <<inStrokes, inHeader, note, svg>>
    /\ UNCHANGED <<dvars, written, rvars, lvars, svars>>

\* PegasusNote(encoded)
NtDecode ==
    /\ npc = "encoded"
    /\ note' = PegasusNote(encoded)
    /\ npc' = "decoded"
    /\ UNCHANGED <<inStrokes, inHeader, encoded, svg>>
    /\ UNCHANGED <<dvars, written, rvars, lvars, svars>>

NextNote ==
    \/ NtEncode
    \/ NtDecode

SpecNote == InitNote /\ [][NextNote]_vars

----------------------------------------------------------------------------
\* Claims about download_data.

DlTerminal == dpc \in {"returned", "failed"}

\* reply[2:] of a frame has this many bytes.
PayloadLen == FrameLen - 2

DeliveredIds == {PacketId(delivered[i]) : i \in 1..Len(delivered)}

\* The delivery was a permutation of the ids 1..N: each once, none else.
DeliveredPermutation ==
    /\ number_of_packets >= 0
    /\ Len(delivered) = number_of_packets
    /\ DeliveredIds = 1..number_of_packets

\* The delivered frames in the order 1, 2, ..., N.
DeliveredInOrder ==
    [i \in 1..number_of_packets |->
        delivered[CHOOSE j \in 1..Len(delivered) : PacketId(delivered[j]) = i]]

\* The loop of download_data run over a whole sequence of frames.
RECURSIVE StoreAll(_, _)
StoreAll(frames, k) ==
    IF k = 0 THEN <<>> ELSE StorePacket(StoreAll(frames, k - 1), frames[k])

\* C1: when the frames read were the ids 1..N in any order, each once,
\* download_data returns, and returns the buffer that the same packets
\* delivered in the order 1, 2, ..., N give.
C1_OrderIndependent ==
    (DlTerminal /\ DeliveredPermutation) =>
        LET stored == StoreAll(DeliveredInOrder, number_of_packets)
            inorder == FinishDownload(stored, number_of_packets)
        IN  /\ dpc = "returned"
            /\ inorder.ok
            /\ result = inorder.buf

\* A download of at least two packets with different payloads, delivered last
\* id first, has returned.
C1_Witness ==
    /\ dpc = "returned"
    /\ number_of_packets >= 2
    /\ DeliveredPermutation
    /\ PacketId(delivered[1]) = number_of_packets
    /\ PacketPayload(delivered[1]) # PacketPayload(delivered[number_of_packets])

\* C2: once a read inside the loop has returned None with fewer than N ids
\* collected, download_data never returns: it is at its count check or has
\* failed, and no buffer, short or not, has been produced.
C2_ShortfallFatal ==
    sawNone =>
        /\ Len(packets) < number_of_packets
        /\ dpc \in {"check", "failed"}
        /\ result = <<>>

\* N - 1 distinct ids of N >= 2 were collected, the next read returned None,
\* and the download has failed.
C2_Witness ==
    /\ sawNone
    /\ dpc = "failed"
    /\ number_of_packets >= 2
    /\ Len(packets) = number_of_packets - 1
    /\ \A i \in 1..(number_of_packets - 1) : DictHas(packets, i)

\* The payload of the last frame delivered with id i.
LastPayload(i) ==
    PacketPayload(delivered[
        CHOOSE j \in 1..Len(delivered) :
            /\ PacketId(delivered[j]) = i
            /\ \A k \in (j + 1)..Len(delivered) : PacketId(delivered[k]) # i])

\* C3: a returned buffer has 62 * N bytes, every id of 1..N was delivered,
\* and the i-th 62 bytes of the buffer are the payload delivered for id i
\* (the last one, when the id was delivered more than once), whatever other
\* ids and duplicates arrived.
C3_DenseReassembly ==
    dpc = "returned" =>
        /\ Len(result) = PayloadLen * number_of_packets
        /\ \A i \in 1..number_of_packets :
              /\ i \in DeliveredIds
              /\ PySlice(result, PayloadLen * (i - 1), PayloadLen * i) = LastPayload(i)

\* A download has returned although one id arrived twice, with two payloads.
C3_Witness ==
    /\ dpc = "returned"
    /\ number_of_packets >= 2
    /\ \E j, k \in 1..Len(delivered) :
          /\ j < k
          /\ PacketId(delivered[j]) = PacketId(delivered[k])
          /\ PacketPayload(delivered[j]) # PacketPayload(delivered[k])

----------------------------------------------------------------------------
\* Claims about _dev_write_command.

\* C10: every opcode sequence of at most 6 bytes is written as one 8-byte
\* frame: 0x02, the opcode length, the opcode bytes in order, zero padding.
C10_CommandFrame ==
    \A i \in 1..Len(written) :
        LET c == written[i].cmd
            f == written[i].frame
        IN  Len(c) <= CmdPad =>
                /\ Len(f) = CmdPad + 2
                /\ At(f, 0) = 2
                /\ At(f, 1) = Len(c)
                /\ \A j \in 1..Len(c) : At(f, 1 + j) = c[j]
                /\ \A j \in (Len(c) + 2)..(CmdPad + 1) : At(f, j) = 0

\* A full 6-byte opcode sequence has been written.
C10_Witness ==
    /\ Len(written) = 1
    /\ Len(written[1].cmd) = CmdPad

----------------------------------------------------------------------------
\* Claims about _dev_read.

RdTerminal == rpc \in {"returned", "failed"}

\* C7: when the handle itself did not fail, the outcome of _dev_read is
\* decided by the number n of bytes received: n = 0 returns None, however
\* the handle reported that it had no data; 0 < n < 64 fails; n = 64 returns
\* those 64 bytes; nothing else is ever returned.
C7_ThreeOutcomes ==
    (RdTerminal /\ rerror # "OSError") =>
        /\ Len(reply) = 0 => (rpc = "returned" /\ rresult.kind = "None")
        /\ (0 < Len(reply) /\ Len(reply) < FrameLen) => rpc = "failed"
        /\ Len(reply) = FrameLen =>
              (rpc = "returned" /\ rresult = [kind |-> "bytes", bytes |-> reply])
        /\ (rpc = "returned" /\ rresult.kind = "bytes") => Len(rresult.bytes) = FrameLen

\* C8: whenever _dev_read has returned or failed, no alarm is pending.
C8_AlarmDisarmed == RdTerminal => ~alarm

\* C9: when the device delivers no byte, _dev_read still eventually returns
\* or fails.
C9_DeadlineEnforced == <>(RdTerminal \/ sent > 0)

----------------------------------------------------------------------------
\* Claims about load_pegasus_notes.

LdTerminal == lpc \in {"returned", "failed"}

\* The loop is about to follow a pointer that does not lead forward.
NonIncreasing == lpc = "loop" /\ pointer # 0 /\ pointer <= offset

\* C4: load_pegasus_notes ends on every buffer: it returns or fails, a
\* pointer that leads to its own record or to an earlier offset makes it
\* fail, and every turn of the loop that goes on moves offset forward.
C4_Terminates ==
    /\ <>LdTerminal
    /\ NonIncreasing ~> (lpc = "failed")
    /\ [][(lpc = "loop" /\ lpc' = "loop") => offset' > offset]_vars

\* After a record that decoded, a pointer to the same or an earlier offset
\* was met and the call has failed.
C4_Witness ==
    /\ lpc = "failed"
    /\ Len(notes) >= 1
    /\ pointer # 0
    /\ pointer <= offset

\* Record 1 is a header with bit 4 set, one point and one sentinel (22
\* bytes), its pointer is p, and record 2, which follows it, has pointer 0.
Scenario(p) ==
    /\ Len(data) >= 22 + 3
    /\ PySlice(data, 0, 3) = <<p, 0, 0>>
    /\ FlagBit4(At(data, 3))
    /\ PySlice(data, 14, 18) # Sentinel
    /\ PySlice(data, 18, 22) = Sentinel
    /\ PySlice(data, 22, 25) = <<0, 0, 0>>

\* C6 as claimed: with record 1's pointer 20, two notes are returned, the
\* first with one stroke of one point.
C6_AsClaimed ==
    (LdTerminal /\ Scenario(20)) =>
        /\ lpc = "returned"
        /\ Len(notes) = 2
        /\ Len(notes[1].strokes) = 1
        /\ Len(notes[1].strokes[1]) = 1

\* C6: with record 1's pointer 22, the end of its header, point and
\* sentinel, exactly one note is returned, with one stroke of that one point:
\* the record whose pointer is 0 ends the list and is not decoded.
C6_Scenario ==
    (LdTerminal /\ Scenario(22)) =>
        /\ lpc = "returned"
        /\ Len(notes) = 1
        /\ notes[1].strokes = <<<<UnpackXY(PySlice(data, 14, 18))>>>>

\* The scenario's buffer, with a whole second record, has been decoded.
C6_Witness ==
    /\ lpc = "returned"
    /\ Scenario(22)
    /\ Len(data) >= 22 + HeaderLen

----------------------------------------------------------------------------
\* Claims about PegasusNote on a synthetic note.

NoSentinelPoint ==
    \A i \in 1..Len(inStrokes) :
        \A j \in 1..Len(inStrokes[i]) : inStrokes[i][j] # SentinelPoint

\* C5 as claimed: decoding the encoding gives back the strokes, whatever
\* the points.
C5_AsClaimed ==
    npc = "decoded" => (note.ok /\ note.strokes = inStrokes)

\* C5: decoding the encoding gives back the strokes when the header has
\* flags bit 4 set and no point is (0, -32768), the point whose four bytes
\* are the sentinel.
C5_RoundTrip ==
    (npc = "decoded" /\ NoSentinelPoint) => (note.ok /\ note.strokes = inStrokes)

\* Two strokes, one of them with two points, negative coordinates among
\* them, have been encoded and decoded.
C5_Witness ==
    /\ npc = "decoded"
    /\ NoSentinelPoint
    /\ Len(inStrokes) = 2
    /\ Len(inStrokes[1]) = 2
    /\ inStrokes[1][1] # inStrokes[1][2]

----------------------------------------------------------------------------
\* PegasusNote on an arbitrary slice, then as_svg on the decoded note.

\* The 4-byte groups a slice is built from: the sentinel and the points
\* (5, -7) and (-5, 9).
GroupChoices == {Sentinel, PointBytes, <<251, 255, 9, 0>>}

\* The bodies of exactly k groups.
RECURSIVE GroupSeqs(_)
GroupSeqs(k) ==
    IF k = 0 THEN {<<>>}
    ELSE {b \o g : b \in GroupSeqs(k - 1), g \in GroupChoices}

\* What follows the last whole group: nothing, or one to three stray bytes.
Tails == {<<>>, <<1>>, <<1, 0>>, <<1, 0, 2>>}

\* The two headers with bit 4 of the flags set, and one with bit 4 clear.
SliceHeaders == Headers \cup {<<0, 0, 0, BadFlags, 3, 2, 0, 0, 0, 0, 1, 0, 0, 0>>}

\* A header, up to MaxGroups groups and a tail; or a header cut short.
Slices ==
    {h \o b \o t : h \in SliceHeaders,
                   b \in UNION {GroupSeqs(k) : k \in 0..MaxGroups}, t \in Tails}
        \cup {PySlice(h, 0, k) : h \in SliceHeaders, k \in 0..(HeaderLen - 1)}

\* The page widths and scales as_svg is called with.
PageWidths == {744}
Scales == {1, 2}

\* A faulty variant: every point of a path is drawn with 'L'.
AsSvgAllLines(strokes, page_width, scale) ==
    [k \in 1..Len(strokes) |->
        [id |-> <<"stroke", k - 1>>,
         d |-> [pos_id \in 1..Len(strokes[k]) |->
                  <<"L", page_width \div 2 + strokes[k][pos_id][1] * scale,
                    strokes[k][pos_id][2] * scale>>]]]

\* as_svg: for every stroke, in order, one path with id "stroke<counter>"
\* whose d lists, for every point in order, the action ('M' for the first
\* point, 'L' for the others), page_width / 2 + pos[0] * scale and
\* pos[1] * scale.
AsSvg(strokes, page_width, scale) ==
    [k \in 1..Len(strokes) |->
        [id |-> <<"stroke", k - 1>>,
         d |-> [pos_id \in 1..Len(strokes[k]) |->
                  <<IF pos_id = 1 THEN "M" ELSE "L",
                    page_width \div 2 + strokes[k][pos_id][1] * scale,
                    strokes[k][pos_id][2] * scale>>]]]

InitSlice ==
    /\ npc = "slice"
    /\ encoded \in Slices
    /\ inStrokes = <<>> /\ inHeader = <<>>
    /\ note = [ok |-> FALSE, err |-> "", strokes |-> <<>>, note_id |-> 0, hash |-> <<>>]
    /\ svg = <<>>
    /\ written = <<>>
    /\ DownloadIdle /\ ReadIdle /\ LoadIdle /\ SessionIdle

\* PegasusNote(encoded)
SlDecode ==
    /\ npc = "slice"
    /\ note' = PegasusNote(encoded)
    /\ npc' = IF note'.ok THEN "note" ELSE "failed"
    /\ UNCHANGED <<inStrokes, inHeader, encoded, svg>>
    /\ UNCHANGED <<dvars, written, rvars, lvars, svars>>

\* note.as_svg(page_width, page_height, scale)
SlAsSvg ==
    /\ npc = "note"
    /\ \E page_width \in PageWidths, scale \in Scales :
          svg' = AsSvg(note.strokes, page_width, scale)
    /\ npc' = "rendered"
    /\ UNCHANGED <<inStrokes, inHeader, encoded, note>>
    /\ UNCHANGED <<dvars, written, rvars, lvars, svars>>

NextSlice ==
    \/ SlDecode
    \/ SlAsSvg

SpecSlice == InitSlice /\ [][NextSlice]_vars

----------------------------------------------------------------------------
\* C12

\* The slice has a whole header and whole 4-byte groups after it.
WellFormedLength(d) == Len(d) >= HeaderLen /\ (Len(d) - HeaderLen) % 4 = 0

SlDone == npc \in {"note", "failed", "rendered"}

\* C12: a slice shorter than the 14-byte header, or whose length after the
\* header is not a multiple of 4, makes PegasusNote fail: no note, and no
\* part of a note, is produced from it.
C12_MalformedLengthFatal ==
    (SlDone /\ ~WellFormedLength(encoded))
        => (npc = "failed" /\ ~note.ok /\ note.strokes = <<>> /\ svg = <<>>)

\* A slice with good flags, one closed stroke and two stray bytes was refused.
C12_Witness ==
    /\ npc = "failed"
    /\ Len(encoded) = HeaderLen + 10
    /\ FlagBit4(At(encoded, 3))
    /\ PySlice(encoded, HeaderLen, HeaderLen + 8) = PointBytes \o Sentinel
    /\ note.err = "struct.error"

----------------------------------------------------------------------------
\* C17

\* The whole 4-byte groups after the header, in order.
Groups(d) ==
    [g \in 1..((Len(d) - HeaderLen) \div 4) |->
        PySlice(d, HeaderLen + 4 * (g - 1), HeaderLen + 4 * g)]

SentinelGroups(d) == {g \in DOMAIN Groups(d) : Groups(d)[g] = Sentinel}

\* The position of the k-th sentinel group; 0 for k = 0.
KthSentinel(d, k) ==
    IF k = 0 THEN 0
    ELSE CHOOSE g \in SentinelGroups(d) :
            Cardinality({h \in SentinelGroups(d) : h < g}) = k - 1

\* One stroke per sentinel group: the points between it and the sentinel
\* before it.  Points after the last sentinel belong to no stroke.
RunsClosedBySentinel(d) ==
    [k \in 1..Cardinality(SentinelGroups(d)) |->
        [j \in 1..(KthSentinel(d, k) - KthSentinel(d, k - 1) - 1) |->
            UnpackXY(Groups(d)[KthSentinel(d, k - 1) + j])]]

\* C17: a slice of well-formed length (with bit 4 of the flags set) decodes,
\* and its strokes are exactly the runs of non-sentinel groups each closed by
\* a sentinel: as many strokes as sentinel groups, an empty stroke for two
\* sentinels in a row, and no stroke for the points after the last sentinel.
C17_StrokeSplitting ==
    (SlDone /\ WellFormedLength(encoded) /\ FlagBit4(At(encoded, 3)))
        => /\ note.ok
           /\ note.strokes = RunsClosedBySentinel(encoded)
           /\ Len(note.strokes) = Cardinality(SentinelGroups(encoded))

\* Two sentinels in a row and then a point: two empty strokes, point dropped.
C17_Witness ==
    /\ npc = "note"
    /\ Len(encoded) = HeaderLen + 12
    /\ PySlice(encoded, HeaderLen, HeaderLen + 8) = Sentinel \o Sentinel
    /\ PySlice(encoded, HeaderLen + 8, HeaderLen + 12) = PointBytes
    /\ note.strokes = <<<<>>, <<>>>>

----------------------------------------------------------------------------
\* C15

\* C15: as_svg gives one path per decoded stroke, in decode order, with ids
\* stroke0, stroke1, ...; in each path the first point is drawn with 'M' and
\* every later point with 'L', in point order; the note's strokes, hash and
\* note id are what decoding gave.
C15_OnePathPerStroke ==
    npc = "rendered" =>
        /\ Len(svg) = Len(note.strokes)
        /\ \A k \in 1..Len(svg) :
              /\ svg[k].id = <<"stroke", k - 1>>
              /\ Len(svg[k].d) = Len(note.strokes[k])
              /\ \A j \in 1..Len(svg[k].d) :
                    svg[k].d[j][1] = (IF j = 1 THEN "M" ELSE "L")
        /\ \E page_width \in PageWidths, scale \in Scales :
              \A k \in 1..Len(svg) : \A j \in 1..Len(svg[k].d) :
                 /\ svg[k].d[j][2] = page_width \div 2 + note.strokes[k][j][1] * scale
                 /\ svg[k].d[j][3] = note.strokes[k][j][2] * scale
        /\ note = PegasusNote(encoded)

\* A stroke of two different points was rendered as M then L.
C15_Witness ==
    /\ npc = "rendered"
    /\ \E k \in 1..Len(svg) :
          /\ Len(svg[k].d) = 2
          /\ note.strokes[k][1] # note.strokes[k][2]
          /\ svg[k].d[1][1] = "M" /\ svg[k].d[2][1] = "L"

----------------------------------------------------------------------------
\* C13, C14, C20: the records of a buffer

\* The offsets of the records the pointers of buffer d chain together: the
\* record at 0, then the record each nonzero pointer leads to, up to fuel.
RECURSIVE ChainFrom(_, _, _)
ChainFrom(d, off, fuel) ==
    IF fuel = 0 \/ ~PointerReadable(d, off) THEN <<>>
    ELSE IF LoadPointer(d, off) = 0 THEN <<>>
    ELSE <<off>> \o ChainFrom(d, LoadPointer(d, off), fuel - 1)

RecordStarts == ChainFrom(data, 0, MaxRecords + 1)

\* The bytes of the i-th record, and its bytes from offset 14 on.
RecordSlice(i) == PySlice(data, RecordStarts[i], LoadPointer(data, RecordStarts[i]))
RecordPayload(i) == PySlice(RecordSlice(i), HeaderLen, Len(RecordSlice(i)))

\* C13: every note load_pegasus_notes returns was decoded from a record whose
\* flags have bit 4 set, one note per record and none skipped; when a record
\* with bit 4 clear is on the chain, the load fails.
C13_Bit4Required ==
    /\ lpc = "returned" =>
          /\ Len(notes) = Len(RecordStarts)
          /\ \A i \in 1..Len(notes) :
                /\ FlagBit4(At(data, RecordStarts[i] + 3))
                /\ notes[i].note_id = At(data, RecordStarts[i] + 4)
    /\ (/\ LdTerminal
        /\ \E i \in 1..Len(RecordStarts) :
              /\ Len(RecordSlice(i)) >= 4
              /\ ~FlagBit4(At(RecordSlice(i), 3)))
          => lpc = "failed"

\* After one note was decoded, a whole record with bit 4 clear ended the load.
C13_Witness ==
    /\ lpc = "failed"
    /\ Len(notes) = 1
    /\ pointer >= offset + HeaderLen
    /\ pointer <= Len(data)
    /\ ~FlagBit4(At(data, offset + 3))

\* C14: the hash of a note is the digest of its record's bytes from offset
\* 14 on and of nothing else: two records with the same such bytes have the
\* same hash, whatever their headers.
C14_HashOfPayloadOnly ==
    /\ \A i \in 1..Len(notes) : notes[i].hash = Md5(RecordPayload(i))
    /\ \A i, j \in 1..Len(notes) :
          RecordPayload(i) = RecordPayload(j) => notes[i].hash = notes[j].hash

\* Two notes were returned whose records have the same stroke bytes and
\* differ in pointer, flags, note id, note count, timestamp and reserved bytes.
C14_Witness ==
    /\ lpc = "returned"
    /\ Len(notes) = 2
    /\ RecordPayload(1) = PointBytes \o Sentinel
    /\ RecordPayload(2) = RecordPayload(1)
    /\ \A b \in {0, 3, 4, 5, 6, 11} :
          At(RecordSlice(1), b) # At(RecordSlice(2), b)
    /\ notes[1].hash = notes[2].hash

\* C20: when a record of the buffer fails to decode, load_pegasus_notes
\* still returns, and the notes of the records that decode are in what it
\* returns.
C20_PerRecordIsolation ==
    (/\ LdTerminal
     /\ \E i \in 1..Len(RecordStarts) : ~PegasusNote(RecordSlice(i)).ok
     /\ \E i \in 1..Len(RecordStarts) : PegasusNote(RecordSlice(i)).ok)
        => /\ lpc = "returned"
           /\ \A i \in 1..Len(RecordStarts) :
                 PegasusNote(RecordSlice(i)).ok
                    => \E k \in 1..Len(notes) : notes[k] = PegasusNote(RecordSlice(i))

----------------------------------------------------------------------------
\* C16, C19: the writes of download_data

\* The opcode sequences written so far, in order.
WrittenCommands == [i \in 1..Len(written) |-> written[i].cmd]

\* C16: download_data writes [0xb5], [0xb6], [0xb6] in this order, and the
\* third, the acknowledging [0xb6], only when the dict holds a payload for
\* every packet id 1..number_of_packets.
C16_AckAfterReassembly ==
    /\ WrittenCommands
          = SubSeq(<<CmdDownload, CmdTransfer, CmdTransfer>>, 1, Len(written))
    /\ Len(written) = 3 =>
          /\ number_of_packets >= 0
          /\ \A id \in 1..number_of_packets :
                \E k \in 1..Len(packets) : packets[k][1] = id

\* C19: between two writes of a command frame there is a read attempt: no
\* command is written right after another.
C19_RequestResponse ==
    \A i \in 1..(Len(io) - 1) : ~(io[i] = "write" /\ io[i + 1] = "write")

----------------------------------------------------------------------------
\* PegasusDevice: the cached identity and the properties that fetch it.

\* A 64-byte version reply with the given fields, laid out as
\* struct.Struct('>BBBHHHBB'): three bytes, three big-endian 16-bit values,
\* two bytes.
VersionFrame(b0, b1, product_id, version1, version2, pad_version, b9, mode) ==
    <<b0, b1, product_id, version1 \div 256, version1 % 256,
      version2 \div 256, version2 % 256, pad_version \div 256, pad_version % 256,
      b9, mode>> \o Repeat(0, FrameLen - 11)

\* What _dev_read gives after [0x95, 0x95]: two good replies with different
\* fields, one wrong marker each, disagreeing versions, or None.
VersionReplies ==
    {VersionFrame(128, 169, 1, 2, 2, 3, 14, 1),
     VersionFrame(128, 169, 7, 258, 258, 772, 14, 2),
     VersionFrame(129, 169, 1, 2, 2, 3, 14, 1),
     VersionFrame(128, 168, 1, 2, 2, 3, 14, 1),
     VersionFrame(128, 169, 1, 2, 2, 3, 15, 1),
     VersionFrame(128, 169, 1, 2, 258, 3, 14, 1),
     None}

\* A 64-byte device-id reply: two marker bytes, twelve id bytes, padding.
DeviceIdFrame(m0, m1, first) ==
    <<m0, m1>> \o [i \in 1..12 |-> first + i - 1] \o Repeat(0, FrameLen - 14)

DeviceIdReplies ==
    {DeviceIdFrame(129, 211, 1), DeviceIdFrame(129, 211, 2),
     DeviceIdFrame(128, 211, 1), DeviceIdFrame(129, 210, 1), None}

\* self._version_struct.unpack_from(message)
UnpackVersion(message) ==
    [b0 |-> At(message, 0), b1 |-> At(message, 1), product_id |-> At(message, 2),
     version1 |-> At(message, 3) * 256 + At(message, 4),
     version2 |-> At(message, 5) * 256 + At(message, 6),
     pad_version |-> At(message, 7) * 256 + At(message, 8),
     b9 |-> At(message, 9), mode |-> At(message, 10)]

\* A faulty variant: _product_id is assigned before the asserts are made.
GetVersionEager(d, message) ==
    IF message = None THEN [ok |-> FALSE, err |-> "TypeError", dev |-> d]
    ELSE LET u == UnpackVersion(message)
             e == [d EXCEPT !.product_id = <<u.product_id>>]
         IN  IF u.b0 # 128 \/ u.b1 # 169 \/ u.b9 # 14 \/ u.version1 # u.version2
             THEN [ok |-> FALSE, err |-> "AssertionError", dev |-> e]
             ELSE [ok |-> TRUE, err |-> "",
                   dev |-> [e EXCEPT !.version = <<u.version1>>,
                                     !.pad_version = <<u.pad_version>>,
                                     !.mode = <<u.mode>>]]

\* _get_version after its write: unpack_from raises TypeError on None; the
\* four asserts; then the four fields are assigned.
GetVersion(d, message) ==
    IF message = None THEN [ok |-> FALSE, err |-> "TypeError", dev |-> d]
    ELSE LET u == UnpackVersion(message)
         IN  IF u.b0 # 128 \/ u.b1 # 169 \/ u.b9 # 14 \/ u.version1 # u.version2
             THEN [ok |-> FALSE, err |-> "AssertionError", dev |-> d]
             ELSE [ok |-> TRUE, err |-> "",
                   dev |-> [d EXCEPT !.product_id = <<u.product_id>>,
                                     !.version = <<u.version1>>,
                                     !.pad_version = <<u.pad_version>>,
                                     !.mode = <<u.mode>>]]

\* _get_device_id after its write: reply[0] raises TypeError on None; the two
\* asserts; then the integer whose twelve base-256 digits, most significant
\* first, are reply[2] .. reply[13] (kept as its digits: it has 96 bits).
GetDeviceId(message) ==
    IF message = None THEN [ok |-> FALSE, err |-> "TypeError", value |-> None]
    ELSE IF At(message, 0) # 129 \/ At(message, 1) # 211
         THEN [ok |-> FALSE, err |-> "AssertionError", value |-> None]
         ELSE [ok |-> TRUE, err |-> "", value |-> <<PySlice(message, 2, 14)>>]

\* A 64-byte note-count reply: two marker bytes, the count low byte first,
\* padding.
NotesCountFrame(m0, m1, count) ==
    <<m0, m1, count % 256, count \div 256>> \o Repeat(0, FrameLen - 4)

NotesCountReplies ==
    {NotesCountFrame(129, 192, 261), NotesCountFrame(129, 192, 0),
     NotesCountFrame(128, 192, 261), NotesCountFrame(129, 193, 261), None}

\* notes_count after its write: reply[0] raises TypeError on None; the two
\* asserts; then reply[2] + (reply[3] << 8).
NotesCount(message) ==
    IF message = None THEN [ok |-> FALSE, err |-> "TypeError", value |-> None]
    ELSE IF At(message, 0) # 129 \/ At(message, 1) # 192
         THEN [ok |-> FALSE, err |-> "AssertionError", value |-> None]
         ELSE [ok |-> TRUE, err |-> "",
               value |-> <<At(message, 2) + At(message, 3) * 256>>]

\* A faulty variant: the cached field is never found set.
CachedNever(d, prop) == FALSE

\* The test "self._<prop> is None" of a property fails: the field is set.
Cached(d, prop) == d[prop] # None

VersionProps == {"product_id", "version", "pad_version", "mode"}

InitSession ==
    /\ dev = NewDevice /\ returned = <<>> /\ pending = ""
    /\ written = <<>>
    /\ DownloadIdle /\ ReadIdle /\ LoadIdle /\ NoteIdle

\* What an access that has ended is logged with.
Entry(prop, ok, value, err, wrote, message) ==
    [prop |-> prop, kind |-> IF ok THEN "value" ELSE "raised",
     value |-> IF ok THEN value ELSE None, err |-> err,
     wrote |-> wrote, reply |-> message]

\* A property is read: with the field set it returns the field at once;
\* with the field None it calls the fetch, which writes its command through
\* _dev_write_command and then waits in _dev_read for the device's reply.
Access(prop, command) ==
    /\ pending = ""
    /\ Len(returned) < MaxAccesses
    /\ IF Cached(dev, prop)
       THEN /\ returned' = Append(returned, Entry(prop, TRUE, dev[prop], "", FALSE, None))
            /\ UNCHANGED <<written, pending>>
       ELSE /\ written' = DevWriteCommand(written, command)
            /\ pending' = prop
            /\ UNCHANGED returned
    /\ UNCHANGED dev
    /\ UNCHANGED <<dvars, rvars, lvars, nvars>>

AccessProductId == Access("product_id", CmdVersion)

AccessVersion == Access("version", CmdVersion)

AccessPadVersion == Access("pad_version", CmdVersion)

AccessMode == Access("mode", CmdVersion)

AccessDeviceId == Access("device_id", CmdDeviceId)

\* notes_count is read: nothing is cached, the command is written on every
\* access and the property waits in _dev_read for the reply.
AccessNotesCount ==
    /\ pending = ""
    /\ Len(returned) < MaxAccesses
    /\ written' = DevWriteCommand(written, CmdNotesCount)
    /\ pending' = "notes_count"
    /\ UNCHANGED <<dev, returned>>
    /\ UNCHANGED <<dvars, rvars, lvars, nvars>>

\* _dev_read returns inside notes_count: the asserts and the value returned,
\* or the exception; no field of the device is assigned.
NotesCountReply ==
    /\ pending = "notes_count"
    /\ \E message \in NotesCountReplies :
          LET g == NotesCount(message)
          IN  returned' = Append(returned,
                    Entry(pending, g.ok, g.value, g.err, TRUE, message))
    /\ pending' = ""
    /\ UNCHANGED <<dev, written>>
    /\ UNCHANGED <<dvars, rvars, lvars, nvars>>

\* _dev_read returns inside _get_version: the asserts, the assignments, and
\* the property returns self._<prop>, or the exception leaves the property.
VersionReply ==
    /\ pending \in VersionProps
    /\ \E message \in VersionReplies :
          LET g == GetVersion(dev, message)
          IN  /\ dev' = g.dev
              /\ returned' = Append(returned,
                    Entry(pending, g.ok, g.dev[pending], g.err, TRUE, message))
    /\ pending' = ""
    /\ UNCHANGED written
    /\ UNCHANGED <<dvars, rvars, lvars, nvars>>

\* _dev_read returns inside _get_device_id: the asserts, the value, and
\* self._device_id = ...; return self._device_id, or the exception.
DeviceIdReply ==
    /\ pending = "device_id"
    /\ \E message \in DeviceIdReplies :
          LET g == GetDeviceId(message)
          IN  /\ dev' = IF g.ok THEN [dev EXCEPT !.device_id = g.value] ELSE dev
              /\ returned' = Append(returned,
                    Entry(pending, g.ok, g.value, g.err, TRUE, message))
    /\ pending' = ""
    /\ UNCHANGED written
    /\ UNCHANGED <<dvars, rvars, lvars, nvars>>

NextSession ==
    \/ AccessProductId
    \/ AccessVersion
    \/ AccessPadVersion
    \/ AccessMode
    \/ AccessDeviceId
    \/ AccessNotesCount
    \/ VersionReply
    \/ DeviceIdReply
    \/ NotesCountReply

SpecSession == InitSession /\ [][NextSession]_vars

----------------------------------------------------------------------------
\* C11

\* How often a command was written to the handle.
CountWritten(command) ==
    Cardinality({i \in 1..Len(written) : written[i].cmd = command})

\* The accesses to the given properties that returned, and that raised.
Returning(props) ==
    {i \in 1..Len(returned) : returned[i].prop \in props /\ returned[i].kind = "value"}
Raising(props) ==
    {i \in 1..Len(returned) : returned[i].prop \in props /\ returned[i].kind = "raised"}

\* C11: the identity is read once and cached.  While no access has raised,
\* [0x95, 0x95] and [0x80, 0xd3] are each written at most once; in general
\* each is written once per failed exchange, once for the exchange that
\* succeeded and once for the exchange still waiting for its reply; an
\* access after the one that fetched writes nothing and returns the value
\* the first one returned.  notes_count, which is no part of the identity,
\* may be read in between and is fetched every time.
C11_ReadOnceCached ==
    /\ (\A i \in 1..Len(returned) : returned[i].kind = "value")
          => CountWritten(CmdVersion) <= 1 /\ CountWritten(CmdDeviceId) <= 1
    /\ CountWritten(CmdVersion)
          = Cardinality(Raising(VersionProps))
              + (IF Returning(VersionProps) = {} THEN 0 ELSE 1)
              + (IF pending \in VersionProps THEN 1 ELSE 0)
    /\ CountWritten(CmdDeviceId)
          = Cardinality(Raising({"device_id"}))
              + (IF Returning({"device_id"}) = {} THEN 0 ELSE 1)
              + (IF pending = "device_id" THEN 1 ELSE 0)
    /\ \A i, j \in 1..Len(returned) :
          (/\ i < j
           /\ returned[i].prop \in VersionProps \cup {"device_id"}
           /\ returned[i].prop = returned[j].prop
           /\ returned[i].kind = "value" /\ returned[j].kind = "value")
             => ~returned[j].wrote /\ returned[j].value = returned[i].value

\* mode was fetched, then version and mode again were served from the cache.
C11_Witness ==
    /\ Len(returned) = 3
    /\ returned[1].prop = "mode" /\ returned[1].wrote /\ returned[1].kind = "value"
    /\ returned[2].prop = "version" /\ ~returned[2].wrote
    /\ returned[3].prop = "mode" /\ ~returned[3].wrote
    /\ returned[3].value = returned[1].value
    /\ CountWritten(CmdVersion) = 1

----------------------------------------------------------------------------
\* C18

\* The reply has a wrong marker byte or its two version fields disagree,
\* stated on the bytes of the frame.
BadVersionReply(message) ==
    \/ At(message, 0) # 128
    \/ At(message, 1) # 169
    \/ At(message, 9) # 14
    \/ PySlice(message, 3, 5) # PySlice(message, 5, 7)

\* C18: an access that fetched the version and read a reply with a marker
\* mismatch or disagreeing version fields raised; an access that raises
\* leaves the cached fields as they were; the four version fields are all
\* None or all set.
C18_AllOrNothing ==
    /\ [](\A i \in 1..Len(returned) :
            (/\ returned[i].prop \in VersionProps
             /\ returned[i].wrote
             /\ returned[i].reply # None
             /\ BadVersionReply(returned[i].reply))
               => returned[i].kind = "raised")
    /\ [](\/ \A f \in VersionProps : dev[f] = None
          \/ \A f \in VersionProps : dev[f] # None)
    /\ [][(/\ Len(returned') > Len(returned)
           /\ returned'[Len(returned')].kind = "raised") => dev' = dev]_vars

\* A reply whose only fault is the 0x0e marker was refused with nothing cached.
C18_Witness ==
    /\ Len(returned) >= 1
    /\ LET last == returned[Len(returned)]
       IN  /\ last.prop = "product_id"
           /\ last.kind = "raised"
           /\ last.reply # None
           /\ At(last.reply, 0) = 128 /\ At(last.reply, 1) = 169
           /\ At(last.reply, 9) = 15
           /\ PySlice(last.reply, 3, 5) = PySlice(last.reply, 5, 7)
    /\ \A f \in VersionProps : dev[f] = None

====
